---------------------------- MODULE Spec2Model ----------------------------
(***************************************************************************)
(* A model of the rubric scoring engine of vaanimeter (src/scorer.py) and  *)
(* of the way its collaborators are loaded (src/utils.py), with the        *)
(* "Score Introduction" button of the app (src/app.py) as its caller.      *)
(*                                                                         *)
(* A transcript is a TLA+ string, or None.  Python's string operations     *)
(* (lower, split, strip, find, count, the substring test `in`) are         *)
(* modelled character by character.  The float arithmetic of the band      *)
(* mappings is modelled by exact integer cross-multiplication; the one     *)
(* place where IEEE doubles differ from the exact value at a band edge     *)
(* (7 errors per 100 words) is modelled as the double behaves.             *)
(***************************************************************************)
EXTENDS Integers, Sequences, FiniteSets, TLC

VARIABLES
    grammar_tool,    \* IntroductionScorer.grammar_tool: None or the tool
    text,            \* the argument of the call in progress (or last made)
    pc,              \* position of the call
    content,         \* locals of calculate_final_score
    speech,
    language,
    clarity,
    engagement,
    report,          \* the value calculate_final_score returned
    fn,              \* the function called
    ran,             \* how often each evaluator ran during the call
    check_calls,     \* calls of grammar_tool.check during the call
    polarity_calls,  \* calls of vader_analyzer.polarity_scores during the call
    errors_seen,     \* what grammar_tool.check gave during the call
    compound_seen,   \* what polarity_scores gave during the call
    memo,            \* an earlier call: its inputs and its report
    session          \* st.session_state: the entries the app has stored

vars == <<grammar_tool, text, pc, content, speech, language, clarity,
          engagement, report, fn, ran, check_calls, polarity_calls,
          errors_seen, compound_seen, memo, session>>

-----------------------------------------------------------------------------
(* Values *)

None == [kind |-> "None"]

Str(s) == [kind |-> "str", s |-> s]

Tool == [kind |-> "LanguageTool"]

-----------------------------------------------------------------------------
(* Python string operations *)

Char(s, i) == SubSeq(s, i, i)

Whitespace == {" ", "\t", "\n"}

LowerChar(c) ==
    CASE c = "A" -> "a" [] c = "B" -> "b" [] c = "C" -> "c" [] c = "D" -> "d"
      [] c = "E" -> "e" [] c = "F" -> "f" [] c = "G" -> "g" [] c = "H" -> "h"
      [] c = "I" -> "i" [] c = "J" -> "j" [] c = "K" -> "k" [] c = "L" -> "l"
      [] c = "M" -> "m" [] c = "N" -> "n" [] c = "O" -> "o" [] c = "P" -> "p"
      [] c = "Q" -> "q" [] c = "R" -> "r" [] c = "S" -> "s" [] c = "T" -> "t"
      [] c = "U" -> "u" [] c = "V" -> "v" [] c = "W" -> "w" [] c = "X" -> "x"
      [] c = "Y" -> "y" [] c = "Z" -> "z" [] OTHER -> c

RECURSIVE LowerRange(_, _, _)
\* the characters lo..hi of s in lower case, by halves
LowerRange(s, lo, hi) ==
    IF lo > hi THEN ""
    ELSE IF lo = hi THEN LowerChar(Char(s, lo))
    ELSE LET mid == (lo + hi) \div 2
         IN  LowerRange(s, lo, mid) \o LowerRange(s, mid + 1, hi)

\* str.lower()
Lower(s) == LowerRange(s, 1, Len(s))

\* whether p occurs in s at 0-based index i
MatchAt(s, p, i) == i + Len(p) <= Len(s) /\ SubSeq(s, i + 1, i + Len(p)) = p

\* s.find(p, start): the 0-based index of the first occurrence of p at or
\* after start, or -1
FindFrom(s, p, start) ==
    LET found == { i \in start..(Len(s) - Len(p)) : MatchAt(s, p, i) }
    IN  IF found = {} THEN -1
        ELSE CHOOSE i \in found : \A j \in found : i <= j

\* str.find(p)
Find(s, p) == FindFrom(s, p, 0)

\* p in s
In(p, s) == Find(s, p) # -1

RECURSIVE CountFrom(_, _, _)
\* each occurrence found is counted and the search goes on after its end
CountFrom(s, p, i) ==
    LET j == FindFrom(s, p, i)
    IN  IF j = -1 THEN 0 ELSE 1 + CountFrom(s, p, j + Len(p))

\* str.count(p): the number of non-overlapping occurrences
Count(s, p) == CountFrom(s, p, 0)

\* the first position from i on that holds whitespace (ws), or that does
\* not (~ws); Len(s) + 1 when there is none
FirstAt(s, i, ws) ==
    CHOOSE j \in i..(Len(s) + 1) :
        /\ j = Len(s) + 1 \/ (Char(s, j) \in Whitespace) = ws
        /\ \A k \in i..(j - 1) : (Char(s, k) \in Whitespace) # ws

\* a token starts at i: no whitespace at i, and whitespace or nothing before
TokenStart(s, i) ==
    /\ Char(s, i) \notin Whitespace
    /\ i = 1 \/ Char(s, i - 1) \in Whitespace

RECURSIVE SplitRange(_, _, _)
\* the tokens that start at the positions lo..hi of s, in order, by halves
SplitRange(s, lo, hi) ==
    IF lo > hi THEN << >>
    ELSE IF lo = hi
         THEN IF TokenStart(s, lo)
              THEN << SubSeq(s, lo, FirstAt(s, lo, TRUE) - 1) >>
              ELSE << >>
    ELSE LET mid == (lo + hi) \div 2
         IN  SplitRange(s, lo, mid) \o SplitRange(s, mid + 1, hi)

\* str.split(): the whitespace-delimited tokens
Split(s) == SplitRange(s, 1, Len(s))

\* not s.strip(): nothing but whitespace
StripIsEmpty(s) == \A i \in 1..Len(s) : Char(s, i) \in Whitespace

\* any(x in s for x in patterns)
AnyIn(patterns, s) == \E k \in 1..Len(patterns) : In(patterns[k], s)

RECURSIVE FirstFound(_, _, _)
\* for p in patterns: idx = s.find(p); if idx != -1: (keep idx); break
FirstFound(patterns, s, k) ==
    IF k > Len(patterns) THEN -1
    ELSE LET idx == Find(s, patterns[k])
         IN  IF idx # -1 THEN idx ELSE FirstFound(patterns, s, k + 1)

Min(a, b) == IF a < b THEN a ELSE b

Max(a, b) == IF a > b THEN a ELSE b

-----------------------------------------------------------------------------
(* evaluate_content_structure: Content & Structure, at most 40 points *)

strong_salutations ==
    << "i am excited to introduce myself",
       "i'm very happy to introduce myself",
       "i am very happy to introduce myself" >>

good_salutations ==
    << "good morning", "good afternoon", "good evening",
       "good day", "hello everyone" >>

basic_salutations == << "hi", "hello" >>

\* (a variant of salutation_score: every tier present adds its points)
salutation_score_adding(lower_text) ==
    (IF AnyIn(strong_salutations, lower_text) THEN 5 ELSE 0)
      + (IF AnyIn(good_salutations, lower_text) THEN 4 ELSE 0)
      + (IF AnyIn(basic_salutations, lower_text) THEN 2 ELSE 0)

\* the if / elif chain of the salutation tiers
salutation_score(lower_text) ==
    IF AnyIn(strong_salutations, lower_text) THEN 5
    ELSE IF AnyIn(good_salutations, lower_text) THEN 4
    ELSE IF AnyIn(basic_salutations, lower_text) THEN 2
    ELSE 0

must_haves ==
    [ k \in {"Name", "Age", "School/Class", "Family", "Hobbies"} |->
        CASE k = "Name" -> << "name is", "i am", "my name" >>
          [] k = "Age" -> << "years old", "age is", "i am 1", "i am 2",
                             "i am 3", "i am 4", "i am 5", "i am 6",
                             "i am 7", "i am 8", "i am 9" >>
          [] k = "School/Class" -> << "study in", "class", "grade",
                                      "school", "student at" >>
          [] k = "Family" -> << "family", "parents", "brother", "sister",
                                "mother", "father", "live with" >>
          [] k = "Hobbies" -> << "hobby", "hobbies", "like to", "enjoy",
                                 "love to", "playing", "reading" >> ]

good_to_haves ==
    [ k \in {"Family Details", "Origin", "Ambition", "Unique", "Strengths"} |->
        CASE k = "Family Details" -> << "father is", "mother is", "sister is",
                                        "brother is", "parents are" >>
          [] k = "Origin" -> << "i am from", "parents are from", "born in",
                                "native" >>
          [] k = "Ambition" -> << "want to become", "goal", "future",
                                  "aim to", "dream" >>
          [] k = "Unique" -> << "interesting", "unique", "fact about me",
                                "special" >>
          [] k = "Strengths" -> << "strength", "good at", "achievement",
                                   "proud of" >> ]

\* the loop over a keyword table: `points` for each category with a pattern
\* present, the sum capped at `cap`
keyword_score(table, lower_text, points, cap) ==
    Min(cap, points * Cardinality({k \in DOMAIN table :
                                      AnyIn(table[k], lower_text)}))

\* (a variant of must_have_score: 4 points for every pattern present, where
\* the code gives them once for a category)
must_have_score_per_pattern(lower_text) ==
    Min(20, 4 * Cardinality({ kp \in UNION { { << k, i >> :
                                                  i \in 1..Len(must_haves[k]) } :
                                              k \in DOMAIN must_haves } :
                                In(must_haves[kp[1]][kp[2]], lower_text) }))

must_have_score(lower_text) == keyword_score(must_haves, lower_text, 4, 20)

good_to_have_score(lower_text) == keyword_score(good_to_haves, lower_text, 2, 10)

\* indices[k]: the index of the first pattern of the category found, or -1
indices(lower_text) ==
    [ k \in DOMAIN must_haves |-> FirstFound(must_haves[k], lower_text, 1) ]

salutation_idx(lower_text) ==
    FirstFound(good_salutations \o basic_salutations, lower_text, 1)

closings == << "thank you", "thanks", "that's all" >>

\* (a variant of closing_idx: the last occurrence of the closing, as rfind
\* gives it, where the code takes the first)
closing_idx_last(lower_text) ==
    LET idx == FirstFound(closings, lower_text, 1)
        last(p) == CHOOSE i \in 0..Len(lower_text) :
                      /\ MatchAt(lower_text, p, i)
                      /\ \A j \in (i + 1)..Len(lower_text) :
                            ~MatchAt(lower_text, p, j)
        first == CHOOSE k \in 1..Len(closings) :
                      /\ In(closings[k], lower_text)
                      /\ \A m \in 1..(k - 1) : ~In(closings[m], lower_text)
    IN  IF idx = -1 THEN -1 ELSE last(closings[first])

closing_idx(lower_text) == FirstFound(closings, lower_text, 1)

\* (a variant of flow_floor: the floor at 0 left out)
flow_no_floor(score) == score

\* flow_score = max(0, flow_score)
flow_floor(score) == Max(0, score)

\* (a variant of flow_score: the three penalties as one if / elif chain, so
\* that only the first that applies is taken)
flow_score_first_penalty(lower_text) ==
    LET idx == indices(lower_text)
        sal == salutation_idx(lower_text)
        clo == closing_idx(lower_text)
    IN  flow_floor(
          IF sal # -1 /\ idx["Name"] # -1 /\ idx["Name"] < sal THEN 5 - 2
          ELSE IF clo # -1 /\ idx["Name"] # -1 /\ clo < idx["Name"] THEN 5 - 3
          ELSE IF idx["Hobbies"] # -1 /\ idx["Name"] # -1
                    /\ idx["Hobbies"] < idx["Name"] THEN 5 - 1
          ELSE 5)

\* flow_score starts at 5; each penalty that applies is subtracted
flow_score(lower_text) ==
    LET idx == indices(lower_text)
        sal == salutation_idx(lower_text)
        clo == closing_idx(lower_text)
        d1  == IF sal # -1 /\ idx["Name"] # -1 /\ idx["Name"] < sal
               THEN 2 ELSE 0
        d2  == IF clo # -1 /\ idx["Name"] # -1 /\ clo < idx["Name"]
               THEN 3 ELSE 0
        d3  == IF idx["Hobbies"] # -1 /\ idx["Name"] # -1
                  /\ idx["Hobbies"] < idx["Name"]
               THEN 1 ELSE 0
    IN  flow_floor(5 - d1 - d2 - d3)

evaluate_content_structure(t) ==
    LET lower_text == Lower(t)
        sal  == salutation_score(lower_text)
        must == must_have_score(lower_text)
        good == good_to_have_score(lower_text)
        flow == flow_score(lower_text)
    IN  [ salutation_score |-> sal,
          keyword_must_have_score |-> must,
          keyword_good_to_have_score |-> good,
          flow_score |-> flow,
          total |-> sal + must + good + flow ]

-----------------------------------------------------------------------------
(* evaluate_speech_rate: Speech Rate, at most 10 points *)

\* the assumed speaking time in seconds: duration_min = 52 / 60
DurationSeconds == 52

\* wpm = word_count / duration_min, kept as the exact fraction
\* WpmNum(word_count) / DurationSeconds.  No word count gives a whole wpm
\* equal to a band edge, so the double compares as the fraction does.
WpmNum(word_count) == word_count * 60

speech_band(word_count) ==
    LET n == WpmNum(word_count)
        d == DurationSeconds
    IN  IF n > 161 * d THEN 2
        ELSE IF 141 * d <= n /\ n <= 160 * d THEN 6
        ELSE IF 111 * d <= n /\ n <= 140 * d THEN 10
        ELSE IF 81 * d <= n /\ n <= 110 * d THEN 6
        ELSE 2

evaluate_speech_rate(t) ==
    LET word_count == Len(Split(t))
    IN  [ wpm |-> WpmNum(word_count) \div DurationSeconds,
          score |-> speech_band(word_count) ]

-----------------------------------------------------------------------------
(* evaluate_language_grammar: Language & Grammar, at most 20 points *)

\* g_ratio >= k/10, where errors_per_100 = errors / word_count * 100 and
\* g_ratio = 1 - min(errors_per_100 / 10, 1).  With exactly 7 errors per 100
\* words the doubles give 0.29999999999999993, which is below 0.3.
GRatioAtLeast(errors, word_count, k) ==
    /\ 100 * errors <= (10 - k) * word_count
    /\ ~(k = 3 /\ 100 * errors = 7 * word_count)

\* (a variant of grammar_score: no points in the lowest band)
grammar_score_from_zero(errors, word_count) ==
    IF GRatioAtLeast(errors, word_count, 9) THEN 10
    ELSE IF GRatioAtLeast(errors, word_count, 7) THEN 8
    ELSE IF GRatioAtLeast(errors, word_count, 5) THEN 6
    ELSE IF GRatioAtLeast(errors, word_count, 3) THEN 4
    ELSE 0

grammar_score(errors, word_count) ==
    IF GRatioAtLeast(errors, word_count, 9) THEN 10
    ELSE IF GRatioAtLeast(errors, word_count, 7) THEN 8
    ELSE IF GRatioAtLeast(errors, word_count, 5) THEN 6
    ELSE IF GRatioAtLeast(errors, word_count, 3) THEN 4
    ELSE 2

Range(seq) == { seq[i] : i \in 1..Len(seq) }

\* ttr = len(unique_tokens) / len(tokens), banded at 0.9, 0.7, 0.5, 0.3
vocab_score(words) ==
    LET tokens == [ i \in 1..Len(words) |-> Lower(words[i]) ]
        u == Cardinality(Range(tokens))
        n == Len(tokens)
    IN  IF 10 * u >= 9 * n THEN 10
        ELSE IF 10 * u >= 7 * n THEN 8
        ELSE IF 10 * u >= 5 * n THEN 6
        ELSE IF 10 * u >= 3 * n THEN 4
        ELSE 2

\* `errors` is len(self.grammar_tool.check(text)), or 0 without a tool
evaluate_language_grammar(t, errors) ==
    LET words == Split(t)
        word_count == Len(words)
    IN  IF word_count = 0
        THEN [ grammar_score |-> 0, vocabulary_richness_score |-> 0, total |-> 0 ]
        ELSE [ grammar_score |-> grammar_score(errors, word_count),
               vocabulary_richness_score |-> vocab_score(words),
               total |-> grammar_score(errors, word_count) + vocab_score(words) ]

-----------------------------------------------------------------------------
(* evaluate_clarity: Clarity, at most 15 points *)

fillers ==
    << "um", "uh", "like", "you know", "so", "actually",
       "basically", "right", "i mean", "well", "kinda",
       "sort of", "okay", "hmm", "ah" >>

\* [f for f in fillers if " " in f]
multi_word_fillers == SelectSeq(fillers, LAMBDA f : In(" ", f))

RECURSIVE SumCounts(_, _, _)
SumCounts(patterns, s, k) ==
    IF k > Len(patterns) THEN 0
    ELSE Count(s, patterns[k]) + SumCounts(patterns, s, k + 1)

filler_count(lower_text, words) ==
    Cardinality({ i \in 1..Len(words) : words[i] \in Range(fillers) })
    + SumCounts(multi_word_fillers, lower_text, 1)

\* (a variant of clarity_band: bands that leave no gap between them)
clarity_band_no_gaps(fc, word_count) ==
    IF 100 * fc <= 3 * word_count THEN 15
    ELSE IF 100 * fc <= 6 * word_count THEN 12
    ELSE IF 100 * fc <= 9 * word_count THEN 9
    ELSE IF 100 * fc <= 12 * word_count THEN 6
    ELSE 3

\* the bands of rate_percent = filler_count / word_count * 100 (unrounded)
clarity_band(fc, word_count) ==
    IF 100 * fc <= 3 * word_count THEN 15
    ELSE IF 4 * word_count <= 100 * fc /\ 100 * fc <= 6 * word_count THEN 12
    ELSE IF 7 * word_count <= 100 * fc /\ 100 * fc <= 9 * word_count THEN 9
    ELSE IF 10 * word_count <= 100 * fc /\ 100 * fc <= 12 * word_count THEN 6
    ELSE 3

\* round(num / den, 2) in hundredths, rounding a tie to the even hundredth
Round2(num, den) ==
    LET q == (100 * num) \div den
        r == (100 * num) % den
    IN  IF 2 * r > den \/ (2 * r = den /\ q % 2 = 1) THEN q + 1 ELSE q

\* filler_word_rate_percent is kept in hundredths of a percent
evaluate_clarity(t) ==
    LET lower_text == Lower(t)
        words == Split(lower_text)
        word_count == Len(words)
        fc == filler_count(lower_text, words)
    IN  IF word_count = 0
        THEN [ filler_word_count |-> 0, filler_word_rate_percent |-> 0,
               score |-> 15 ]
        ELSE [ filler_word_count |-> fc,
               filler_word_rate_percent |-> Round2(100 * fc, word_count),
               score |-> clarity_band(fc, word_count) ]

-----------------------------------------------------------------------------
(* evaluate_engagement: Engagement, at most 15 points *)

\* `compound` is scores['compound'] in hundredths, in -100..100;
\* p_pos = (compound + 1) / 2 is kept in two-hundredths: compound + 100
engagement_band(compound) ==
    LET p == compound + 100
    IN  IF p >= 180 THEN 15
        ELSE IF p >= 140 THEN 12
        ELSE IF p >= 100 THEN 9
        ELSE IF p >= 60 THEN 6
        ELSE 3

\* sentiment_positive_probability is kept in hundredths
evaluate_engagement(t, compound) ==
    IF StripIsEmpty(t)
    THEN [ sentiment_positive_probability |-> 0, score |-> 3 ]
    ELSE [ sentiment_positive_probability |-> Round2(compound + 100, 200),
           score |-> engagement_band(compound) ]

-----------------------------------------------------------------------------
(* calculate_final_score *)

\* (a variant of IsBlank: `not text` alone, the strip left out)
IsBlankNoStrip(t) == t = None \/ t.s = ""

\* not text or not text.strip()
IsBlank(t) == t = None \/ t.s = "" \/ StripIsEmpty(t.s)

\* (a variant of ZeroReport: the floors of the clarity and engagement
\* evaluators in place of the zeros)
ZeroReportWithFloors ==
    [ overall_score |-> 0,
      content_and_structure |->
          [ salutation_score |-> 0, keyword_must_have_score |-> 0,
            keyword_good_to_have_score |-> 0, flow_score |-> 0, total |-> 0 ],
      speech_rate |-> [ wpm |-> 0, score |-> 0 ],
      language_and_grammar |->
          [ grammar_score |-> 0, vocabulary_richness_score |-> 0, total |-> 0 ],
      clarity |-> [ filler_word_count |-> 0, filler_word_rate_percent |-> 0,
                    score |-> 15 ],
      engagement |-> [ sentiment_positive_probability |-> 0, score |-> 3 ] ]

\* the report of the short circuit
ZeroReport ==
    [ overall_score |-> 0,
      content_and_structure |->
          [ salutation_score |-> 0, keyword_must_have_score |-> 0,
            keyword_good_to_have_score |-> 0, flow_score |-> 0, total |-> 0 ],
      speech_rate |-> [ wpm |-> 0, score |-> 0 ],
      language_and_grammar |->
          [ grammar_score |-> 0, vocabulary_richness_score |-> 0, total |-> 0 ],
      clarity |-> [ filler_word_count |-> 0, filler_word_rate_percent |-> 0,
                    score |-> 0 ],
      engagement |-> [ sentiment_positive_probability |-> 0, score |-> 0 ] ]

\* (a variant of overall_sum: the engagement score left out of the sum)
overall_sum_without_engagement(c, s, l, cl, e) ==
    c.total + s.score + l.total + cl.score

\* the sum of the five category results
overall_sum(c, s, l, cl, e) == c.total + s.score + l.total + cl.score + e.score

\* max(0, min(100, overall))
clamp(overall) == Max(0, Min(100, overall))

-----------------------------------------------------------------------------
(* The collaborators *)

\* load_language_tool: the tool, or None when LanguageTool('en-US') raised
load_language_tool(loaded) == IF loaded THEN Tool ELSE None

\* the largest number of matches grammar_tool.check gives in the model
MaxErrors == 1

Skipped == [ kind |-> "skipped", errors |-> 0 ]

Raised == [ kind |-> "raised", errors |-> 0 ]

Checked(n) == [ kind |-> "checked", errors |-> n ]

\* (a variant of CheckOutcomes: no `if self.grammar_tool`, so that check is
\* called on None and raises)
CheckOutcomesUnguarded(tool) ==
    IF tool = None THEN { Raised }
    ELSE { Checked(n) : n \in 0..MaxErrors } \cup { Raised }

\* (a variant of CheckOutcomes: errors starts at 1, not 0)
CheckOutcomesFromOne(tool) ==
    IF tool = None THEN { [ kind |-> "skipped", errors |-> 1 ] }
    ELSE { Checked(n) : n \in 0..MaxErrors } \cup { Raised }

\* errors = 0; if self.grammar_tool: errors = len(self.grammar_tool.check(text))
\* check returns some matches or raises; without a tool it is not called
CheckOutcomes(tool) ==
    IF tool = None THEN { Skipped }
    ELSE { Checked(n) : n \in 0..MaxErrors } \cup { Raised }

NotCalled == [ kind |-> "not called", v |-> 0 ]

Gave(c) == [ kind |-> "gave", v |-> c ]

\* scores['compound'] in hundredths: one value in each band of p_pos
Compounds == { -100, -40, 0, 40, 80 }

-----------------------------------------------------------------------------
(* Inputs *)

RECURSIVE Repeat(_, _)
\* s * n
Repeat(s, n) ==
    IF n = 0 THEN ""
    ELSE IF n = 1 THEN s
    ELSE Repeat(s, n \div 2) \o Repeat(s, n - (n \div 2))

RECURSIVE Join(_)
\* " ".join(parts)
Join(parts) ==
    IF Len(parts) = 0 THEN ""
    ELSE IF Len(parts) = 1 THEN parts[1]
    ELSE parts[1] \o " " \o Join(Tail(parts))

\* the transcripts of 1..n phrases of vocab, joined by single spaces
Phrases(vocab, n) ==
    UNION { { Join(q) : q \in [1..m -> vocab] } : m \in 1..n }

\* the longest transcript of a whole scoring call, in phrases
MaxWords == 4

\* a greeting, a name phrase, a closing, a hobby and a filler
Vocabulary == { "Hi", "i am", "thank you", "playing", "um" }

BlankTranscripts == { None, Str(""), Str(" "), Str("\t\n") }

Transcripts ==
    BlankTranscripts \cup { Str(s) : s \in Phrases(Vocabulary, MaxWords) }

-----------------------------------------------------------------------------
(* State *)

Evaluators == { "content", "speech", "language", "clarity", "engagement" }

Unset == [ kind |-> "unset" ]

\* a session_state with no entries
NoEntries == [ k \in {} |-> Unset ]

NoMemo == [ kind |-> "none" ]

\* the calls counted after the one the observer kept: 0..MaxLater
MaxLater == 2

\* the state after IntroductionScorer(): __init__ loads the two collaborators
Init ==
    /\ \E loaded \in BOOLEAN : grammar_tool = load_language_tool(loaded)
    /\ text = None
    /\ pc = "idle"
    /\ content = Unset
    /\ speech = Unset
    /\ language = Unset
    /\ clarity = Unset
    /\ engagement = Unset
    /\ report = Unset
    /\ fn = "none"
    /\ ran = [ e \in Evaluators |-> 0 ]
    /\ check_calls = 0
    /\ polarity_calls = 0
    /\ errors_seen = Skipped
    /\ compound_seen = NotCalled
    /\ memo = NoMemo
    /\ session = NoEntries

-----------------------------------------------------------------------------
(* The evaluators as steps: what a run of each does to the state, and the  *)
(* position `after` it reaches unless it raises                           *)

ContentStep(t, after) ==
    /\ content' = evaluate_content_structure(t)
    /\ ran' = [ ran EXCEPT !["content"] = @ + 1 ]
    /\ pc' = after
    /\ UNCHANGED << speech, language, clarity, engagement, check_calls,
                    polarity_calls, errors_seen, compound_seen >>

SpeechStep(t, after) ==
    /\ speech' = evaluate_speech_rate(t)
    /\ ran' = [ ran EXCEPT !["speech"] = @ + 1 ]
    /\ pc' = after
    /\ UNCHANGED << content, language, clarity, engagement, check_calls,
                    polarity_calls, errors_seen, compound_seen >>

\* grammar_tool.check is called only past the early return for no words;
\* an exception of check is caught nowhere in scorer.py
LanguageStep(t, after) ==
    /\ ran' = [ ran EXCEPT !["language"] = @ + 1 ]
    /\ IF Len(Split(t)) = 0
       THEN /\ language' = evaluate_language_grammar(t, 0)
            /\ pc' = after
            /\ UNCHANGED << check_calls, errors_seen >>
       ELSE \E out \in CheckOutcomes(grammar_tool) :
              /\ errors_seen' = out
              /\ check_calls' = IF out = Skipped THEN check_calls
                                ELSE check_calls + 1
              /\ IF out = Raised
                 THEN language' = language /\ pc' = "raised"
                 ELSE /\ language' = evaluate_language_grammar(t, out.errors)
                      /\ pc' = after
    /\ UNCHANGED << content, speech, clarity, engagement, polarity_calls,
                    compound_seen >>

ClarityStep(t, after) ==
    /\ clarity' = evaluate_clarity(t)
    /\ ran' = [ ran EXCEPT !["clarity"] = @ + 1 ]
    /\ pc' = after
    /\ UNCHANGED << content, speech, language, engagement, check_calls,
                    polarity_calls, errors_seen, compound_seen >>

\* polarity_scores is called only past the early return for blank text
EngagementStep(t, after) ==
    /\ ran' = [ ran EXCEPT !["engagement"] = @ + 1 ]
    /\ IF StripIsEmpty(t)
       THEN /\ engagement' = evaluate_engagement(t, 0)
            /\ UNCHANGED << polarity_calls, compound_seen >>
       ELSE \E c \in Compounds :
              /\ engagement' = evaluate_engagement(t, c)
              /\ polarity_calls' = polarity_calls + 1
              /\ compound_seen' = Gave(c)
    /\ pc' = after
    /\ UNCHANGED << content, speech, language, clarity, check_calls,
                    errors_seen >>

-----------------------------------------------------------------------------
(* calculate_final_score, statement by statement *)

\* calculate_final_score(t) is entered: the short circuit, or on to the
\* first evaluator
EnterCall(t) ==
    /\ text' = t
    /\ fn' = "calculate_final_score"
    /\ content' = Unset
    /\ speech' = Unset
    /\ language' = Unset
    /\ clarity' = Unset
    /\ engagement' = Unset
    /\ ran' = [ e \in Evaluators |-> 0 ]
    /\ check_calls' = 0
    /\ polarity_calls' = 0
    /\ errors_seen' = Skipped
    /\ compound_seen' = NotCalled
    /\ IF IsBlank(t)
       THEN report' = ZeroReport /\ pc' = "returned"
       ELSE report' = Unset /\ pc' = "content"
    /\ memo' = IF memo = NoMemo THEN memo
               ELSE [ memo EXCEPT !.later = Min(MaxLater, @ + 1) ]
    /\ UNCHANGED << grammar_tool, session >>

\* a call of calculate_final_score(t) by a caller that holds the scorer
StartCall(t) ==
    /\ pc \in { "idle", "returned", "raised" }
    /\ EnterCall(t)

\* content = self.evaluate_content_structure(text)
Content ==
    /\ pc = "content"
    /\ ContentStep(text.s, "speech")
    /\ UNCHANGED << grammar_tool, text, report, fn, memo, session >>

\* speech = self.evaluate_speech_rate(text)
Speech ==
    /\ pc = "speech"
    /\ SpeechStep(text.s, "language")
    /\ UNCHANGED << grammar_tool, text, report, fn, memo, session >>

\* (a variant of Language: a check that raised makes the scorer drop its tool)
LanguageDroppingTool ==
    /\ pc = "language"
    /\ LanguageStep(text.s, "clarity")
    /\ grammar_tool' = IF pc' = "raised" THEN None ELSE grammar_tool
    /\ UNCHANGED << text, report, fn, memo, session >>

\* language = self.evaluate_language_grammar(text)
Language ==
    /\ pc = "language"
    /\ LanguageStep(text.s, "clarity")
    /\ UNCHANGED << grammar_tool, text, report, fn, memo, session >>

\* clarity = self.evaluate_clarity(text)
Clarity ==
    /\ pc = "clarity"
    /\ ClarityStep(text.s, "engagement")
    /\ UNCHANGED << grammar_tool, text, report, fn, memo, session >>

\* engagement = self.evaluate_engagement(text)
Engagement ==
    /\ pc = "engagement"
    /\ EngagementStep(text.s, "aggregate")
    /\ UNCHANGED << grammar_tool, text, report, fn, memo, session >>

\* the sum, the clamp and the return of the report
Aggregate ==
    /\ pc = "aggregate"
    /\ report' =
         [ overall_score |->
               clamp(overall_sum(content, speech, language, clarity, engagement)),
           content_and_structure |-> content,
           speech_rate |-> speech,
           language_and_grammar |-> language,
           clarity |-> clarity,
           engagement |-> engagement ]
    /\ pc' = "returned"
    /\ UNCHANGED << grammar_tool, text, content, speech, language, clarity,
                    engagement, fn, ran, check_calls, polarity_calls,
                    errors_seen, compound_seen, memo, session >>

-----------------------------------------------------------------------------
(* An evaluator called on its own, on a new scorer *)

DirectCall(f, t) ==
    /\ pc = "idle"
    /\ fn' = f
    /\ text' = Str(t)
    /\ UNCHANGED << grammar_tool, report, memo, session >>

CallContent(t) ==
    DirectCall("evaluate_content_structure", t) /\ ContentStep(t, "returned")

CallSpeechRate(t) ==
    DirectCall("evaluate_speech_rate", t) /\ SpeechStep(t, "returned")

CallLanguage(t) ==
    DirectCall("evaluate_language_grammar", t) /\ LanguageStep(t, "returned")

CallClarity(t) ==
    DirectCall("evaluate_clarity", t) /\ ClarityStep(t, "returned")

CallEngagement(t) ==
    DirectCall("evaluate_engagement", t) /\ EngagementStep(t, "returned")

-----------------------------------------------------------------------------
(* Spec: one call on a new scorer, of calculate_final_score or of the      *)
(* language, clarity or engagement evaluator, on every transcript          *)

Strings(ts) == { t.s : t \in ts \ { None } }

FirstCall == pc = "idle" /\ \E t \in Transcripts : StartCall(t)

LanguageCall == pc = "idle" /\ \E t \in Strings(Transcripts) : CallLanguage(t)

ClarityCall == pc = "idle" /\ \E t \in Strings(Transcripts) : CallClarity(t)

EngagementCall == pc = "idle" /\ \E t \in Strings(Transcripts) : CallEngagement(t)

Next ==
    \/ FirstCall
    \/ Content
    \/ Speech
    \/ Language
    \/ Clarity
    \/ Engagement
    \/ Aggregate
    \/ LanguageCall
    \/ ClarityCall
    \/ EngagementCall

Spec == Init /\ [][Next]_vars

-----------------------------------------------------------------------------
(* SpecSpeech: evaluate_speech_rate on transcripts of 0..MaxSpeechWords    *)
(* words                                                                   *)

MaxSpeechWords == 145

SpeechTexts == { Repeat("go ", n) : n \in 0..MaxSpeechWords }

SpeechCall == pc = "idle" /\ \E t \in SpeechTexts : CallSpeechRate(t)

NextSpeech == SpeechCall

SpecSpeech == Init /\ [][NextSpeech]_vars

-----------------------------------------------------------------------------
(* SpecClarity: evaluate_clarity on transcripts of some fillers among      *)
(* plain words                                                             *)

MaxFillers == 2

MaxPlain == 30

ClarityTexts ==
    { Repeat("Um ", k) \o Repeat("you know ", j) \o Repeat("go ", n) :
        k \in 0..MaxFillers, j \in 0..1, n \in 0..MaxPlain }

LongClarityCall == pc = "idle" /\ \E t \in ClarityTexts : CallClarity(t)

NextClarity == LongClarityCall

SpecClarity == Init /\ [][NextClarity]_vars

-----------------------------------------------------------------------------
(* SpecRepeat: calls of calculate_final_score one after the other on one   *)
(* scorer; an observer keeps the inputs and the report of one of them      *)

MaxRepeatWords == 2

RepeatVocabulary == { "Hi", "um" }

RepeatTranscripts ==
    { None, Str(" ") }
      \cup { Str(s) : s \in Phrases(RepeatVocabulary, MaxRepeatWords) }

\* what the call was given: the transcript and the collaborators' outputs
CallInputs == [ text |-> text, errors |-> errors_seen, compound |-> compound_seen ]

AnyCall == pc \in { "idle", "returned", "raised" } /\ \E t \in RepeatTranscripts : StartCall(t)

Remember ==
    /\ pc = "returned"
    /\ memo = NoMemo
    /\ memo' = [ kind |-> "call", inputs |-> CallInputs, report |-> report,
                 later |-> 0 ]
    /\ UNCHANGED << grammar_tool, text, pc, content, speech, language, clarity,
                    engagement, report, fn, ran, check_calls, polarity_calls,
                    errors_seen, compound_seen, session >>

NextRepeat ==
    \/ AnyCall
    \/ Content
    \/ Speech
    \/ Language
    \/ Clarity
    \/ Engagement
    \/ Aggregate
    \/ Remember

SpecRepeat == Init /\ [][NextRepeat]_vars

-----------------------------------------------------------------------------
(* SpecContent: evaluate_content_structure on transcripts of greetings,    *)
(* must-have phrases and a closing in every order                          *)

\* the longest transcript given to the content evaluator, in phrases
MaxContentWords == 4

\* a strong, a good and a bare salutation, phrases of the five must-have
\* categories (Name in the strong salutation; Name and Age; Family and
\* School/Class; Hobbies), and a closing
ContentVocabulary ==
    { "I am excited to introduce myself", "Good day", "Hi",
      "I am 9 years old", "my family and my school", "playing", "thank you" }

\* the transcripts of 1..n different phrases of vocab, in every order
Arrangements(vocab, n) ==
    UNION { { Join(q) : q \in { f \in [1..m -> vocab] :
                                  \A i, j \in 1..m : f[i] = f[j] => i = j } } :
            m \in 1..n }

\* the empty transcript, every phrase said twice, and the arrangements
ContentTexts ==
    { "" } \cup { p \o " " \o p : p \in ContentVocabulary }
           \cup Arrangements(ContentVocabulary, MaxContentWords)

ContentCall == pc = "idle" /\ \E t \in ContentTexts : CallContent(t)

NextContent == ContentCall

SpecContent == Init /\ [][NextContent]_vars

-----------------------------------------------------------------------------
(* SpecApp: the runs of main() in which "Score Introduction" was clicked,  *)
(* one after the other in one browser session                              *)

\* the longest transcript given to the app, in phrases
MaxAppWords == 1

AppVocabulary == { "Hi", "um" }

\* transcript_text: what the text area or the uploaded file gave, a string
AppTexts == { "", " \n" } \cup Phrases(AppVocabulary, MaxAppWords)

\* st.session_state[key] = value
Put(state, key, value) ==
    [ k \in DOMAIN state \cup { key } |-> IF k = key THEN value ELSE state[k] ]

\* if st.button("Score Introduction"), with transcript_text = t: a blank
\* transcript is refused with st.error; for any other, IntroductionScorer()
\* is built (st.cache_resource hands every scorer the same grammar tool) and
\* calculate_final_score(t) is entered
Click(t) ==
    /\ pc \in { "idle", "refused", "stored", "failed" }
    /\ IF StripIsEmpty(t)
       THEN /\ pc' = "refused"
            /\ text' = Str(t)
            /\ fn' = "main"
            /\ content' = Unset
            /\ speech' = Unset
            /\ language' = Unset
            /\ clarity' = Unset
            /\ engagement' = Unset
            /\ report' = Unset
            /\ ran' = [ e \in Evaluators |-> 0 ]
            /\ check_calls' = 0
            /\ polarity_calls' = 0
            /\ errors_seen' = Skipped
            /\ compound_seen' = NotCalled
            /\ UNCHANGED << grammar_tool, memo, session >>
       ELSE EnterCall(Str(t))

\* st.session_state['results'] = results, then
\* st.session_state['transcript'] = transcript_text
Store ==
    /\ pc = "returned"
    /\ session' = Put(Put(session, "results", report), "transcript", text)
    /\ pc' = "stored"
    /\ UNCHANGED << grammar_tool, text, content, speech, language, clarity,
                    engagement, report, fn, ran, check_calls, polarity_calls,
                    errors_seen, compound_seen, memo >>

\* (a variant of Catch: the handler keeps the transcript that failed)
CatchStoringTranscript ==
    /\ pc = "raised"
    /\ session' = Put(session, "transcript", text)
    /\ pc' = "failed"
    /\ UNCHANGED << grammar_tool, text, content, speech, language, clarity,
                    engagement, report, fn, ran, check_calls, polarity_calls,
                    errors_seen, compound_seen, memo >>

\* except Exception as e: st.error(...)
Catch ==
    /\ pc = "raised"
    /\ pc' = "failed"
    /\ UNCHANGED << grammar_tool, text, content, speech, language, clarity,
                    engagement, report, fn, ran, check_calls, polarity_calls,
                    errors_seen, compound_seen, memo, session >>

AppClick ==
    pc \in { "idle", "refused", "stored", "failed" }
      /\ \E t \in AppTexts : Click(t)

NextApp ==
    \/ AppClick
    \/ Content
    \/ Speech
    \/ Language
    \/ Clarity
    \/ Engagement
    \/ Aggregate
    \/ Store
    \/ Catch

SpecApp == Init /\ [][NextApp]_vars

-----------------------------------------------------------------------------
(* The claims *)

\* the transcript is None, empty or nothing but whitespace
Blank(t) == t = None \/ \A i \in 1..Len(t.s) : Char(t.s, i) \in { " ", "\t", "\n" }

\* calculate_final_score has returned the report of a non-blank transcript
Scored == fn = "calculate_final_score" /\ pc = "returned" /\ ~Blank(text)

NamePatterns == { "name is", "i am", "my name" }

\* C1: for a non-blank transcript and any collaborator output, the
\* overall_score of the report is exactly the sum of the five category
\* results of that report and lies in 0..100: the clamp changes nothing.
C1_OverallIsSum ==
    Scored =>
        LET sum == report.content_and_structure.total
                   + report.speech_rate.score
                   + report.language_and_grammar.total
                   + report.clarity.score
                   + report.engagement.score
        IN  report.overall_score = sum /\ sum \in 0..100

\* a report of a checked transcript with every category above its least
C1_Witness ==
    /\ Scored
    /\ errors_seen = Checked(0)
    /\ report.engagement.score = 15
    /\ report.content_and_structure.total >= 11
    /\ report.overall_score >= 60

InRange(x, lo, hi) == lo <= x /\ x <= hi

\* C2: every category result stays within its bound: content total 0..40
\* (salutation 0..5, must-have 0..20, good-to-have 0..10, flow 0..5),
\* speech 0..10, language total 0..20, clarity 0..15, engagement 0..15.
C2_CategoryBounds ==
    /\ content # Unset =>
         /\ InRange(content.total, 0, 40)
         /\ InRange(content.salutation_score, 0, 5)
         /\ InRange(content.keyword_must_have_score, 0, 20)
         /\ InRange(content.keyword_good_to_have_score, 0, 10)
         /\ InRange(content.flow_score, 0, 5)
    /\ speech # Unset => InRange(speech.score, 0, 10)
    /\ language # Unset => InRange(language.total, 0, 20)
    /\ clarity # Unset => InRange(clarity.score, 0, 15)
    /\ engagement # Unset => InRange(engagement.score, 0, 15)
    /\ report # Unset =>
         /\ InRange(report.content_and_structure.total, 0, 40)
         /\ InRange(report.speech_rate.score, 0, 10)
         /\ InRange(report.language_and_grammar.total, 0, 20)
         /\ InRange(report.clarity.score, 0, 15)
         /\ InRange(report.engagement.score, 0, 15)

\* all three flow deductions apply (closing and hobby before the name, the
\* name before the greeting) and the flow score is at its floor
C2_Witness ==
    /\ Scored
    /\ text = Str("thank you playing i am Hi")
    /\ report.content_and_structure.flow_score = 0
    /\ report.clarity.score = 15

AllZero(r) ==
    /\ r.overall_score = 0
    /\ \A f \in DOMAIN r.content_and_structure : r.content_and_structure[f] = 0
    /\ \A f \in DOMAIN r.speech_rate : r.speech_rate[f] = 0
    /\ \A f \in DOMAIN r.language_and_grammar : r.language_and_grammar[f] = 0
    /\ \A f \in DOMAIN r.clarity : r.clarity[f] = 0
    /\ \A f \in DOMAIN r.engagement : r.engagement[f] = 0

\* C3: for an empty, None or whitespace-only transcript calculate_final_score
\* returns a report whose overall_score and every category field are 0,
\* clarity.score and engagement.score included, although evaluate_clarity
\* gives 15 and evaluate_engagement gives 3 when called on such a text.
C3_BlankGivesZeroReport ==
    /\ (fn = "calculate_final_score" /\ Blank(text)) =>
           pc = "returned" /\ AllZero(report)
    /\ (fn = "evaluate_clarity" /\ Blank(text)) => clarity.score = 15
    /\ (fn = "evaluate_engagement" /\ Blank(text)) => engagement.score = 3

C3_Witness ==
    /\ fn = "calculate_final_score"
    /\ text = Str("\t\n")
    /\ pc = "returned"
    /\ report.clarity.score = 0

\* C4: during calculate_final_score on a blank transcript no evaluator runs
\* and neither grammar_tool.check nor polarity_scores is called; on a
\* non-blank transcript every evaluator has run exactly once when the report
\* is returned, and each collaborator is called at most once.
C4_EvaluatorRuns ==
    fn = "calculate_final_score" =>
        /\ Blank(text) =>
             /\ \A e \in Evaluators : ran[e] = 0
             /\ check_calls = 0
             /\ polarity_calls = 0
        /\ \A e \in Evaluators : ran[e] <= 1
        /\ check_calls <= 1
        /\ polarity_calls <= 1
        /\ Scored => \A e \in Evaluators : ran[e] = 1

C4_Witness ==
    /\ Scored
    /\ check_calls = 1
    /\ polarity_calls = 1
    /\ \A e \in Evaluators : ran[e] = 1

\* the five bands of the claim, on wpm = word_count * 60 / 52
C5_Bands(word_count) ==
    LET n == word_count * 60
    IN  << n > 161 * 52,
           141 * 52 <= n /\ n <= 160 * 52,
           111 * 52 <= n /\ n <= 140 * 52,
           81 * 52 <= n /\ n <= 110 * 52,
           n < 81 * 52 >>

\* C5: the wpm of every word count matches exactly one of the five bands
\* (> 161, 141-160, 111-140, 81-110, < 81) and the score is that band's
\* (2, 6, 10, 6, 2); so the score is 2 only when wpm > 161 or wpm < 81.
C5_ExactlyOneBand ==
    (fn = "evaluate_speech_rate" /\ pc = "returned") =>
        LET b == C5_Bands(Len(Split(text.s)))
            scores == << 2, 6, 10, 6, 2 >>
        IN  /\ Cardinality({ k \in 1..5 : b[k] }) = 1
            /\ \A k \in 1..5 : b[k] => speech.score = scores[k]
            /\ speech.score = 2 => b[1] \/ b[5]

\* C6: for a transcript with words, with rate = filler_count / word_count *
\* 100 unrounded, evaluate_clarity scores 15 for rate <= 3, 12 for
\* 4 <= rate <= 6, 9 for 7 <= rate <= 9, 6 for 10 <= rate <= 12 and 3
\* otherwise; a rate inside (3,4), (6,7) or (9,10) scores 3.
C6_ClarityBands ==
    (fn = "evaluate_clarity" /\ pc = "returned" /\ Len(Split(text.s)) > 0) =>
        LET wc == Len(Split(text.s))
            r == 100 * clarity.filler_word_count
            between(lo, hi) == lo * wc <= r /\ r <= hi * wc
            gap(lo, hi) == lo * wc < r /\ r < hi * wc
        IN  /\ r <= 3 * wc => clarity.score = 15
            /\ between(4, 6) => clarity.score = 12
            /\ between(7, 9) => clarity.score = 9
            /\ between(10, 12) => clarity.score = 6
            /\ r > 12 * wc => clarity.score = 3
            /\ (gap(3, 4) \/ gap(6, 7) \/ gap(9, 10)) => clarity.score = 3

\* one filler in 29 words: 3.45 percent, in the gap between two bands
C6_Witness ==
    /\ fn = "evaluate_clarity"
    /\ pc = "returned"
    /\ text = Str("Um " \o Repeat("go ", 28))
    /\ clarity.filler_word_count = 1
    /\ Len(Split(text.s)) = 29
    /\ clarity.score = 3

\* C7: a scorer whose grammar_tool is None completes evaluate_language_grammar
\* and calculate_final_score without an exception on every transcript, and
\* gives grammar_score 10 whenever the transcript has words.
C7_NoCheckerNoFailure ==
    grammar_tool = None =>
        /\ pc # "raised"
        /\ (language # Unset /\ Len(Split(text.s)) > 0) =>
               language.grammar_score = 10
        /\ (fn = "evaluate_language_grammar" /\ pc = "returned"
              /\ Len(Split(text.s)) = 0) => language.grammar_score = 0
        /\ Scored => report.language_and_grammar.grammar_score = 10

C7_Witness ==
    /\ grammar_tool = None
    /\ Scored
    /\ check_calls = 0
    /\ report.language_and_grammar.grammar_score = 10

\* C8 as stated: whether the checker is absent, failed to initialize or
\* fails while checking the text, the scoring call returns a report computed
\* with error count 0 and does not fail.
C8_AnyFailureRecovered ==
    (fn = "calculate_final_score" /\ ~Blank(text)
       /\ (grammar_tool = None \/ errors_seen = Raised)) =>
        /\ pc # "raised"
        /\ pc = "returned" =>
               report.language_and_grammar = evaluate_language_grammar(text.s, 0)

\* C8 as amended: a checker that is absent or failed to initialize
\* (grammar_tool is None) is recovered locally: check is never called, the
\* call does not fail and its report is computed with error count 0.  A
\* checker that raises while checking the text is not recovered: the call
\* ends with that exception and returns no report.
C8_AbsentCheckerRecovered ==
    fn = "calculate_final_score" =>
        /\ grammar_tool = None =>
             /\ pc # "raised"
             /\ check_calls = 0
             /\ Scored => report.language_and_grammar
                             = evaluate_language_grammar(text.s, 0)
        /\ errors_seen = Raised => pc = "raised" /\ report = Unset
        /\ pc = "raised" => grammar_tool # None /\ errors_seen = Raised

\* without a checker, a transcript with a repeated word is scored on its
\* vocabulary and on zero errors
C8_Witness ==
    /\ grammar_tool = None
    /\ Scored
    /\ errors_seen = Skipped
    /\ report.language_and_grammar.grammar_score = 10
    /\ report.language_and_grammar.vocabulary_richness_score < 10

\* "thank you" occurs, a Name pattern occurs, and the first "thank you" is
\* before every occurrence of every Name pattern
ThanksBeforeAnyName(lower_text) ==
    LET ty == Find(lower_text, "thank you")
        names == { Find(lower_text, p) : p \in NamePatterns } \ { -1 }
    IN  ty # -1 /\ names # {} /\ \A n \in names : ty < n

\* C9: when "thank you" occurs before any name-indicating phrase ("name is",
\* "i am", "my name") of the transcript, evaluate_content_structure gives
\* flow_score <= 2.
C9_ClosingBeforeName ==
    (content # Unset /\ ThanksBeforeAnyName(Lower(text.s))) =>
        content.flow_score <= 2

\* the closing comes first, then again after the name: only the 3 is deducted
C9_Witness ==
    /\ Scored
    /\ text = Str("thank you i am thank you")
    /\ ThanksBeforeAnyName(Lower(text.s))
    /\ report.content_and_structure.flow_score = 2

-----------------------------------------------------------------------------
(* Content & Structure, by direct calls of evaluate_content_structure *)

\* evaluate_content_structure has returned its result for `text`
ContentDone == fn = "evaluate_content_structure" /\ pc = "returned"

\* a phrase of the list occurs in the lower-cased transcript l
Occurs(phrases, l) == \E k \in 1..Len(phrases) : In(phrases[k], l)

\* C11: the salutation score is that of the highest tier present and the
\* tiers never add: 5 with a strong phrase (whatever else occurs), else 4
\* with a good greeting, else 2 with a bare hi / hello, else 0; it is always
\* one of 0, 2, 4, 5
C11_SalutationTier ==
    ContentDone =>
        LET l == Lower(text.s)
        IN  /\ content.salutation_score \in { 0, 2, 4, 5 }
            /\ content.salutation_score =
                 IF Occurs(strong_salutations, l) THEN 5
                 ELSE IF Occurs(good_salutations, l) THEN 4
                 ELSE IF Occurs(basic_salutations, l) THEN 2
                 ELSE 0

\* a strong phrase together with a good and a bare greeting scored 5
C11_Witness ==
    /\ ContentDone
    /\ content.salutation_score = 5
    /\ Occurs(strong_salutations, Lower(text.s))
    /\ Occurs(good_salutations, Lower(text.s))
    /\ Occurs(basic_salutations, Lower(text.s))

\* the must-have categories with at least one pattern in l
CategoriesPresent(l) ==
    { k \in DOMAIN must_haves : Occurs(must_haves[k], l) }

\* the patterns of category k that occur in l
PatternsPresent(k, l) ==
    { i \in 1..Len(must_haves[k]) : In(must_haves[k][i], l) }

\* C12: keyword_must_have_score is 4 times the number of must-have
\* categories with a pattern present; further patterns of a category add
\* nothing, and the cap of 20 never changes the value
C12_MustHaveCategories ==
    ContentDone =>
        content.keyword_must_have_score
            = 4 * Cardinality(CategoriesPresent(Lower(text.s)))

\* all five categories present, one of them by more than one pattern: 20
C12_Witness ==
    /\ ContentDone
    /\ content.keyword_must_have_score = 20
    /\ LET l == Lower(text.s)
       IN  /\ CategoriesPresent(l) = DOMAIN must_haves
           /\ \E k \in DOMAIN must_haves : Cardinality(PatternsPresent(k, l)) > 1

\* the index of a must-have category: that of its first pattern found
CategoryIdx(k, l) == FirstFound(must_haves[k], l, 1)

\* an ordering that costs points: both found, `first` before `second`
Before(first, second) == first # -1 /\ second # -1 /\ first < second

\* A, B and C of the flow heuristic
NameBeforeSalutation(l) == Before(CategoryIdx("Name", l), salutation_idx(l))

ClosingBeforeName(l) == Before(closing_idx(l), CategoryIdx("Name", l))

HobbiesBeforeName(l) == Before(CategoryIdx("Hobbies", l), CategoryIdx("Name", l))

Deduct(points, applies) == IF applies THEN points ELSE 0

\* C13: flow_score = max(0, 5 - 2*A - 3*B - 1*C); the deductions are
\* independent and stack, and with all three the result is 0, not negative
C13_FlowDeductions ==
    ContentDone =>
        LET l == Lower(text.s)
            A == NameBeforeSalutation(l)
            B == ClosingBeforeName(l)
            C == HobbiesBeforeName(l)
            raw == 5 - Deduct(2, A) - Deduct(3, B) - Deduct(1, C)
        IN  /\ content.flow_score = IF raw < 0 THEN 0 ELSE raw
            /\ A /\ B /\ C => content.flow_score = 0

\* a transcript where all three deductions apply got flow_score 0
C13_Witness ==
    /\ ContentDone
    /\ content.flow_score = 0
    /\ NameBeforeSalutation(Lower(text.s))
    /\ ClosingBeforeName(Lower(text.s))
    /\ HobbiesBeforeName(Lower(text.s))

-----------------------------------------------------------------------------
(* The lowest report of a scored transcript *)

\* C14: for a transcript that is not blank, whatever the grammar checker and
\* the sentiment analyzer give, a returned report has content >= 5,
\* speech >= 2, language >= 4, clarity >= 3, engagement >= 3 and so
\* overall_score >= 17; no report has an overall_score in 1..16, and 0 is
\* returned for blank input only
C14_OverallFloor ==
    fn = "calculate_final_score" /\ pc = "returned" =>
        /\ report.overall_score \notin 1..16
        /\ report.overall_score = 0 => Blank(text)
        /\ ~Blank(text) =>
             /\ report.content_and_structure.total >= 5
             /\ report.speech_rate.score >= 2
             /\ report.language_and_grammar.total >= 4
             /\ report.clarity.score >= 3
             /\ report.engagement.score >= 3
             /\ report.overall_score >= 17

\* a scored transcript with every category at its floor: overall_score 17,
\* with the grammar checker reporting an error
C14_Witness ==
    /\ Scored
    /\ errors_seen.kind = "checked"
    /\ errors_seen.errors > 0
    /\ report.content_and_structure.total = 5
    /\ report.speech_rate.score = 2
    /\ report.language_and_grammar.total = 4
    /\ report.clarity.score = 3
    /\ report.engagement.score = 3
    /\ report.overall_score = 17

-----------------------------------------------------------------------------
(* The session entries of the app *)

\* `results` is a report of calculate_final_score for the transcript t, for
\* some outputs of the grammar checker and of the sentiment analyzer
ReportFor(results, t) ==
    /\ results.content_and_structure = evaluate_content_structure(t)
    /\ results.speech_rate = evaluate_speech_rate(t)
    /\ \E n \in 0..MaxErrors :
          results.language_and_grammar = evaluate_language_grammar(t, n)
    /\ results.clarity = evaluate_clarity(t)
    /\ \E c \in Compounds : results.engagement = evaluate_engagement(t, c)
    /\ results.overall_score =
          results.content_and_structure.total + results.speech_rate.score
            + results.language_and_grammar.total + results.clarity.score
            + results.engagement.score

\* both entries absent, or both present with the results computed for the
\* stored transcript
SessionConsistent ==
    /\ DOMAIN session \in { {}, { "results", "transcript" } }
    /\ "results" \in DOMAIN session =>
          /\ ~Blank(session["transcript"])
          /\ ReportFor(session["results"], session["transcript"].s)

\* C15: after any sequence of clicks on "Score Introduction", the session
\* entries 'results' and 'transcript' are both absent or both present, and
\* present results are the report of the stored transcript; a click with a
\* blank transcript, or one whose scoring raises, leaves both unchanged
C15_SessionEntries ==
    /\ []SessionConsistent
    /\ [][pc' \in { "refused", "raised", "failed" } => session' = session]_vars

\* a scoring that raised, after an earlier click had stored the entries of
\* another transcript
C15_Witness ==
    /\ pc = "failed"
    /\ "results" \in DOMAIN session
    /\ session["transcript"] # text

=============================================================================
